---- MODULE Spec2Model ----
(***************************************************************************)
(* Productivity timer: the App component (App.tsx), its TimerDisplay and   *)
(* StatsPanel children, as a state machine.                                *)
(*                                                                         *)
(* React state hooks are the variables.  An event handler is one action:   *)
(* it applies the handler's batched setState calls (a commit) and leaves   *)
(* pc = "effects"; FlushEffects then runs the component's effects against  *)
(* the committed render, exactly as React flushes passive effects before   *)
(* it handles another event.  Effects that set state cause another commit  *)
(* and another flush.                                                      *)
(*                                                                         *)
(* Time is scaled: a minute has SecPerMin seconds instead of 60, calendar  *)
(* days are integers (the ISO date keys are only compared for equality,    *)
(* and "yesterday" is the key of the day before).                          *)
(***************************************************************************)
EXTENDS Integers, Sequences, FiniteSets, TLC

\* ------------------------------------------------------------------ bounds
SecPerMin == 1          \* seconds in a model minute (60 in the program)
MaxSessions == 1        \* focus sessions recorded in one behaviour
MaxAlarmIntervals == 2  \* live repeating alarm intervals
MaxDay == 1             \* last calendar day reached (days start at 0)
MaxWorkerTime == 3      \* largest timeLeft sent to the worker
MaxMessages == 3        \* messages the worker processes in one behaviour

\* ------------------------------------------------------- program constants
HistoryLimit == 100
DefaultCustomFocus == 25
DefaultCustomBreak == 5
DefaultDailyGoal == 5

S1 == "S1"
S2 == "S2"
CUSTOM == "CUSTOM"
FOCUS == "FOCUS"
BREAK == "BREAK"
FocusMode == {S1, S2, CUSTOM}
TimerPhase == {FOCUS, BREAK}

\* inputs the user can choose in the custom-timer modal
FocusChoices == {5}
BreakChoices == {1}
\* numbers the user can type into the goal editor: the input's min and max
\* attributes do not restrict what onChange receives
GoalChoices == {0, 5, 25}

NoDate == -100          \* the empty string '' of lastActiveDate

VARIABLES
  today,             \* getTodayKey(): the current calendar day
  storage,           \* localStorage: stats, history, streak, lastActiveDate
  mode, phase, isRunning, isAlarmPlaying, timeLeft,
  customFocusTime, customBreakTime,
  stats, sessionHistory, streak, lastActiveDate,
  alarmIntervalRef,  \* alarmIntervalRef.current is not null
  alarmIntervals,    \* number of live setInterval timers made by playSound
  interval,          \* the timer effect's setInterval is live
  modeDeps,          \* [mode, customFocusTime] at the last run of the mode effect
  kb,                \* the render captured by the keyboard effect's handler
  pc,                \* "idle" | "effects"
  clock,             \* sessions recorded so far; Date.now() as a logical time
  op,                \* the handler that has just committed, or "complete" after a completion
  runTicks,          \* ticks since FOCUS was started at its full duration, -1 once interrupted
  fired,             \* completions fired since the last handler committed
  faults,            \* what failed in the completion that has just run
  mounted,           \* the history item the last mount read: missing, corrupt or parsed
  customSessions,    \* the focus minutes of the custom sessions completed since
                     \* the stats were last reset, the latest first
  worker,            \* the timer worker: timerInterval, timeRemaining, isRunning
  wSeq,              \* messages the worker has processed
  wLast,             \* the last message the worker processed
  wOut,              \* messages the worker has posted since it processed wLast
  wHalted,           \* PAUSE, STOP or RESET was processed and no START since
  wHeld,             \* timeRemaining when PAUSE or STOP was processed, NoPayload
                     \* once START, RESET or SYNC has set a new time
  wDrift             \* the drift the interval callback last measured, 0 after a message

appVars == <<today, storage, mode, phase, isRunning, isAlarmPlaying, timeLeft,
          customFocusTime, customBreakTime, stats, sessionHistory, streak,
          lastActiveDate, alarmIntervalRef, alarmIntervals, interval,
          modeDeps, kb, pc, clock, op, runTicks, fired, faults, mounted,
          customSessions>>

workerVars == <<worker, wSeq, wLast, wOut, wHalted, wHeld, wDrift>>

vars == <<appVars, workerVars>>

\* ---------------------------------------------------------------- helpers
TIMER_CONFIG(m) ==
  IF m = S1 THEN [focus |-> 30 * SecPerMin, break |-> 5 * SecPerMin]
  ELSE IF m = S2 THEN [focus |-> 20 * SecPerMin, break |-> 4 * SecPerMin]
  ELSE [focus |-> 25 * SecPerMin, break |-> 5 * SecPerMin]

\* getInitialTime of the render whose custom durations are cf and cb
getInitialTime(m, p, cf, cb) ==
  IF m = CUSTOM
    THEN (IF p = FOCUS THEN cf * SecPerMin ELSE cb * SecPerMin)
    ELSE (IF p = FOCUS THEN TIMER_CONFIG(m).focus ELSE TIMER_CONFIG(m).break)

safeParseJSONNoCatch(json, fallback) ==
  IF ~json.present THEN [value |-> fallback, threw |-> FALSE]
  ELSE IF ~json.valid THEN [value |-> fallback, threw |-> TRUE]
  ELSE [value |-> json.value, threw |-> FALSE]

\* safeParseJSON of a stored item: the fallback when the item is missing or
\* JSON.parse throws on it (valid is FALSE), else what JSON.parse returns;
\* threw says that an exception leaves the function
safeParseJSON(json, fallback) ==
  IF ~json.present THEN [value |-> fallback, threw |-> FALSE]
  ELSE IF ~json.valid THEN [value |-> fallback, threw |-> FALSE]
  ELSE [value |-> json.value, threw |-> FALSE]

defaultStats(day) ==
  [s1Count |-> 0, s2Count |-> 0, customCount |-> 0, totalMinutes |-> 0,
   dailyGoal |-> DefaultDailyGoal, date |-> day]

\* useState initialiser of stats; saved is the stored item
loadStats(saved, day) ==
  LET parsed == safeParseJSON(saved, defaultStats(day)).value
  IN IF parsed.date = day THEN parsed ELSE defaultStats(day)

\* useState initialiser of sessionHistory
loadHistory(saved) == safeParseJSON(saved, <<>>).value

\* useState initialisers of streak and lastActiveDate
loadStreak(saved) == IF saved.present THEN saved.value ELSE 0
loadLastActiveDate(saved) == IF saved.present THEN saved.value ELSE NoDate

\* the persistence effects: every key is rewritten from the committed state
persist(st, hist, sk, lad) ==
  [stats |-> [present |-> TRUE, valid |-> TRUE, value |-> st],
   history |-> [present |-> TRUE, valid |-> TRUE, value |-> hist],
   streak |-> [present |-> TRUE, value |-> sk],
   lastActiveDate |-> [present |-> TRUE, value |-> lad]]

skipPhaseBreakTime(m, p, cf, cb) ==
  IF p = FOCUS
    THEN [phase |-> BREAK,
          timeLeft |-> IF m = CUSTOM THEN cb * SecPerMin ELSE TIMER_CONFIG(m).break]
    ELSE [phase |-> FOCUS,
          timeLeft |-> IF m = CUSTOM THEN cb * SecPerMin ELSE TIMER_CONFIG(m).break]

\* skipPhase of the render (m, p, cf, cb): the phase and the time it sets
skipPhase(m, p, cf, cb) ==
  IF p = FOCUS
    THEN [phase |-> BREAK,
          timeLeft |-> IF m = CUSTOM THEN cb * SecPerMin ELSE TIMER_CONFIG(m).break]
    ELSE [phase |-> FOCUS, timeLeft |-> getInitialTime(m, FOCUS, cf, cb)]

resetTimerFocusTime(m, p, cf, cb) == getInitialTime(m, FOCUS, cf, cb)

\* resetTimer of the render (m, p, cf, cb): the time it sets
resetTimer(m, p, cf, cb) == getInitialTime(m, p, cf, cb)

updateStreakNoReset(sk, lad, day) ==
  IF lad = day THEN [streak |-> sk, lastActiveDate |-> lad]
  ELSE [streak |-> sk + 1, lastActiveDate |-> day]

\* updateStreak: the streak and lastActiveDate it leaves
updateStreak(sk, lad, day) ==
  LET yesterday == day - 1
  IN IF lad = day THEN [streak |-> sk, lastActiveDate |-> lad]
     ELSE IF lad = yesterday THEN [streak |-> sk + 1, lastActiveDate |-> day]
     ELSE IF lad = NoDate THEN [streak |-> 1, lastActiveDate |-> day]
     ELSE [streak |-> 1, lastActiveDate |-> day]

addToHistoryAppend(hist, sessionType, duration, now, day) ==
  LET newSession == [id |-> now, type |-> sessionType, duration |-> duration, date |-> day]
      all == hist \o <<newSession>>
  IN IF Len(all) > HistoryLimit THEN SubSeq(all, 1, HistoryLimit) ELSE all

\* addToHistory: the list after setSessionHistory
addToHistory(hist, sessionType, duration, now, day) ==
  LET newSession == [id |-> now, type |-> sessionType, duration |-> duration, date |-> day]
      all == <<newSession>> \o hist
  IN IF Len(all) > HistoryLimit THEN SubSeq(all, 1, HistoryLimit) ELSE all

sessionLengthOldS2(m, cf) == IF m = S1 THEN 30 ELSE IF m = S2 THEN 40 ELSE cf

\* sessionLength of the focus-completion branch
sessionLength(m, cf) == IF m = S1 THEN 30 ELSE IF m = S2 THEN 20 ELSE cf

completeStatsDefaultCustom(prev, m, len) ==
  [prev EXCEPT !.s1Count = IF m = S1 THEN @ + 1 ELSE @,
               !.s2Count = IF m = S2 THEN @ + 1 ELSE @,
               !.customCount = IF m = CUSTOM THEN @ + 1 ELSE @,
               !.totalMinutes = @ + (IF m = CUSTOM THEN DefaultCustomFocus ELSE len)]

\* setStats updater of the focus-completion branch
completeStats(prev, m, len) ==
  [prev EXCEPT !.s1Count = IF m = S1 THEN @ + 1 ELSE @,
               !.s2Count = IF m = S2 THEN @ + 1 ELSE @,
               !.customCount = IF m = CUSTOM THEN @ + 1 ELSE @,
               !.totalMinutes = @ + len]

armsIntervalNeverCleared(run, t) == TRUE

armsIntervalAtZero(run, t) == run /\ t >= 0

\* the timer effect creates its interval for this render
armsInterval(run, t) == run /\ t > 0

\* otherwise, the timer effect takes its completion branch for this render
completes(run, t) == run /\ t = 0

AllFaults == {"audio", "notification", "storage"}

escapesNotification(audio, notify) == ~notify

\* an exception leaves playAlarm or sendNotification in the completion
\* branch: both catch what the audio and the Notification constructor throw
escapes(audio, notify) == FALSE

recordsSessionAnyPhase(p) == TRUE

\* the completion branch that calls setStats and addToHistory
recordsSession(p) == p = FOCUS

stopsRunFocusOnly(p, run) == IF p = FOCUS THEN FALSE ELSE run

\* setIsRunning(false) at the end of both completion branches
stopsRun(p, run) == FALSE

\* todaySessions is not empty: StatsPanel shows its Clear History button
hasTodaySessions == \E i \in 1..Len(sessionHistory) : sessionHistory[i].date = today

\* ------------------------------------------------------------ stored data
\* ids of stored records are below PersistedIds; new records get larger ones
PersistedIds == 100

OldHistory(n, day) ==
  [i \in 1..n |-> [id |-> PersistedIds - i, type |-> S1, duration |-> 30, date |-> day]]

Absent == [present |-> FALSE, value |-> 0]

\* what localStorage can hold when the page is opened on day 0
FirstVisit ==
  [stats |-> [present |-> FALSE, valid |-> TRUE, value |-> defaultStats(0)],
   history |-> [present |-> FALSE, valid |-> TRUE, value |-> <<>>],
   streak |-> Absent, lastActiveDate |-> [present |-> FALSE, value |-> NoDate]]

\* used yesterday: 99 records, stats of yesterday with a goal of 8
UsedYesterday ==
  [stats |-> [present |-> TRUE, valid |-> TRUE,
              value |-> [s1Count |-> 2, s2Count |-> 0, customCount |-> 0,
                         totalMinutes |-> 60, dailyGoal |-> 8, date |-> -1]],
   history |-> [present |-> TRUE, valid |-> TRUE, value |-> OldHistory(HistoryLimit - 1, -1)],
   streak |-> [present |-> TRUE, value |-> 3],
   lastActiveDate |-> [present |-> TRUE, value |-> -1]]

\* last used three days ago: a full history
UsedLongAgo ==
  [stats |-> [present |-> TRUE, valid |-> TRUE,
              value |-> [s1Count |-> 1, s2Count |-> 0, customCount |-> 0,
                         totalMinutes |-> 30, dailyGoal |-> 5, date |-> -3]],
   history |-> [present |-> TRUE, valid |-> TRUE, value |-> OldHistory(HistoryLimit, -3)],
   streak |-> [present |-> TRUE, value |-> 3],
   lastActiveDate |-> [present |-> TRUE, value |-> -3]]

\* used earlier today: one session
UsedToday ==
  [stats |-> [present |-> TRUE, valid |-> TRUE,
              value |-> [s1Count |-> 1, s2Count |-> 0, customCount |-> 0,
                         totalMinutes |-> 30, dailyGoal |-> 8, date |-> 0]],
   history |-> [present |-> TRUE, valid |-> TRUE, value |-> OldHistory(1, 0)],
   streak |-> [present |-> TRUE, value |-> 1],
   lastActiveDate |-> [present |-> TRUE, value |-> 0]]

\* used earlier today, and the text under the history key is not JSON
CorruptHistory ==
  [UsedToday EXCEPT !.history = [present |-> TRUE, valid |-> FALSE, value |-> <<>>]]

\* what localStorage can hold when the page is opened on day 0
StoredSnapshots == {FirstVisit, UsedYesterday, UsedLongAgo, UsedToday, CorruptHistory}

\* ------------------------------------------------------------------- alarm
\* playSound(selectedSound) for the alarm; audio is FALSE when AudioContext is
\* missing or throws before the repeat interval is set
playSound(audio, ref, n, playing) ==
  IF audio
    THEN [ref |-> TRUE, n |-> n + 1, playing |-> TRUE]
    ELSE [ref |-> ref, n |-> n, playing |-> playing]

stopAlarm(ref, n) ==
  [ref |-> FALSE, n |-> IF ref THEN n - 1 ELSE n, playing |-> FALSE]

\* ------------------------------------------------------------ the worker
\* a message without the field payload; a posted message without timeLeft
NoPayload == -1

\* the drift above which the callback logs a warning, and the wall-clock
\* milliseconds that can pass between two runs of the callback
DriftLimit == 2000
Drifts == {1000, 3000}

\* e.data of the messages sent to the worker: NODATA is a message whose data
\* is missing, PING one whose type the worker does not know
MessageTypes == {"START", "PAUSE", "RESET", "SYNC", "STOP", "PING", "NODATA"}
Messages ==
  [type : {"START", "RESET", "SYNC"}, payload : (0..MaxWorkerTime) \cup {NoPayload}]
    \cup [type : {"PAUSE", "STOP", "PING", "NODATA"}, payload : {NoPayload}]

TICK(t) == [type |-> "TICK", timeLeft |-> t]
COMPLETE == [type |-> "COMPLETE", timeLeft |-> NoPayload]
ERROR == [type |-> "ERROR", timeLeft |-> NoPayload]

stopTimer(w) == [w EXCEPT !.timerInterval = FALSE]

startTimer(w) == [stopTimer(w) EXCEPT !.timerInterval = TRUE]

\* the cases of self.onmessage: the worker state they leave and the messages
\* they post; payload.timeLeft of a missing payload throws, and the catch
\* posts ERROR
onStart(w, payload) ==
  IF payload = NoPayload
    THEN [w |-> w, out |-> <<ERROR>>]
    ELSE [w |-> startTimer([w EXCEPT !.timeRemaining = payload, !.isRunning = TRUE]),
          out |-> <<>>]

onPauseClearsTime(w) ==
  [w |-> stopTimer([w EXCEPT !.isRunning = FALSE, !.timeRemaining = 0]), out |-> <<>>]

onPause(w) == [w |-> stopTimer([w EXCEPT !.isRunning = FALSE]), out |-> <<>>]

onResetSilent(w, payload) ==
  LET w1 == stopTimer([w EXCEPT !.isRunning = FALSE])
  IN IF payload = NoPayload
       THEN [w |-> w1, out |-> <<ERROR>>]
       ELSE [w |-> [w1 EXCEPT !.timeRemaining = payload], out |-> <<>>]

onReset(w, payload) ==
  LET w1 == stopTimer([w EXCEPT !.isRunning = FALSE])
  IN IF payload = NoPayload
       THEN [w |-> w1, out |-> <<ERROR>>]
       ELSE [w |-> [w1 EXCEPT !.timeRemaining = payload], out |-> <<TICK(payload)>>]

onSyncIgnored(w, payload) ==
  IF payload = NoPayload
    THEN [w |-> w, out |-> <<ERROR>>]
    ELSE [w |-> w, out |-> <<>>]

onSync(w, payload) ==
  IF payload = NoPayload
    THEN [w |-> w, out |-> <<ERROR>>]
    ELSE [w |-> [w EXCEPT !.timeRemaining = payload], out |-> <<>>]

onStop(w) == [w |-> stopTimer([w EXCEPT !.isRunning = FALSE]), out |-> <<>>]

onmessage(w, msg) ==
  IF msg.type = "NODATA" THEN [w |-> w, out |-> <<>>]
  ELSE IF msg.type = "START" THEN onStart(w, msg.payload)
  ELSE IF msg.type = "PAUSE" THEN onPause(w)
  ELSE IF msg.type = "RESET" THEN onReset(w, msg.payload)
  ELSE IF msg.type = "SYNC" THEN onSync(w, msg.payload)
  ELSE IF msg.type = "STOP" THEN onStop(w)
  ELSE [w |-> w, out |-> <<>>]

intervalCallbackNoComplete(w, drift) ==
  IF w.isRunning /\ w.timeRemaining > 0
    THEN [w |-> [w EXCEPT !.timeRemaining = @ - 1], out |-> <<TICK(w.timeRemaining - 1)>>]
    ELSE [w |-> w, out |-> <<>>]

intervalCallbackCatchUp(w, drift) ==
  IF w.isRunning /\ w.timeRemaining > 0
    THEN LET elapsed == IF drift \div 1000 > w.timeRemaining THEN w.timeRemaining
                        ELSE drift \div 1000
             t == w.timeRemaining - elapsed
             w1 == [w EXCEPT !.timeRemaining = t]
         IN IF t = 0
              THEN [w |-> stopTimer(w1), out |-> <<TICK(t), COMPLETE>>]
              ELSE [w |-> w1, out |-> <<TICK(t)>>]
    ELSE [w |-> w, out |-> <<>>]

\* the setInterval callback of startTimer; drift is now - lastTickTime in
\* milliseconds, which it only logs when it exceeds DriftLimit
intervalCallback(w, drift) ==
  IF w.isRunning /\ w.timeRemaining > 0
    THEN LET t == w.timeRemaining - 1
             w1 == [w EXCEPT !.timeRemaining = t]
         IN IF t = 0
              THEN [w |-> stopTimer(w1), out |-> <<TICK(t), COMPLETE>>]
              ELSE [w |-> w1, out |-> <<TICK(t)>>]
    ELSE [w |-> w, out |-> <<>>]

\* the worker when its script has been evaluated
WorkerInit ==
  /\ worker = [timerInterval |-> FALSE, timeRemaining |-> 0, isRunning |-> FALSE]
  /\ wSeq = 0
  /\ wLast = [type |-> "NONE", payload |-> NoPayload]
  /\ wOut = <<>>
  /\ wHalted = FALSE
  /\ wHeld = NoPayload
  /\ wDrift = 0

\* the worker processes one message
WorkerMessage(msg) ==
  /\ wSeq < MaxMessages
  /\ LET r == onmessage(worker, msg)
         setsTime == msg.type \in {"START", "RESET", "SYNC"} /\ msg.payload # NoPayload
     IN /\ worker' = r.w
        /\ wOut' = r.out
        /\ wHalted' = IF msg.type = "START" /\ msg.payload # NoPayload THEN FALSE
                      ELSE IF msg.type \in {"PAUSE", "STOP"} THEN TRUE
                      ELSE IF msg.type = "RESET" /\ msg.payload # NoPayload THEN TRUE
                      ELSE wHalted
        /\ wHeld' = IF msg.type \in {"PAUSE", "STOP"} THEN worker.timeRemaining
                    ELSE IF setsTime THEN NoPayload
                    ELSE wHeld
  /\ wSeq' = wSeq + 1
  /\ wLast' = msg
  /\ wDrift' = 0
  /\ UNCHANGED appVars

\* the interval of startTimer fires
WorkerTick ==
  /\ worker.timerInterval
  /\ \E drift \in Drifts :
       LET r == intervalCallback(worker, drift)
       IN /\ worker' = r.w
          /\ wOut' = wOut \o r.out
          /\ wDrift' = drift
  /\ UNCHANGED <<wSeq, wLast, wHalted, wHeld, appVars>>

\* ------------------------------------------------------------------- mount
\* the state after App is constructed from saved and its mount effects ran
MountedState(saved, day) ==
  [mode |-> S1, phase |-> FOCUS, isRunning |-> FALSE, isAlarmPlaying |-> FALSE,
   customFocusTime |-> DefaultCustomFocus, customBreakTime |-> DefaultCustomBreak,
   timeLeft |-> getInitialTime(S1, FOCUS, DefaultCustomFocus, DefaultCustomBreak),
   stats |-> loadStats(saved.stats, day),
   sessionHistory |-> loadHistory(saved.history),
   streak |-> loadStreak(saved.streak),
   lastActiveDate |-> loadLastActiveDate(saved.lastActiveDate),
   storage |-> persist(loadStats(saved.stats, day), loadHistory(saved.history),
                       loadStreak(saved.streak), loadLastActiveDate(saved.lastActiveDate)),
   modeDeps |-> <<S1, DefaultCustomFocus>>,
   kb |-> [alarm |-> FALSE, mode |-> S1, phase |-> FOCUS,
           customFocusTime |-> DefaultCustomFocus, customBreakTime |-> DefaultCustomBreak],
   mounted |-> IF ~saved.history.present THEN "missing"
               ELSE IF ~saved.history.valid THEN "corrupt" ELSE "parsed",
   crashed |-> \/ safeParseJSON(saved.stats, defaultStats(day)).threw
               \/ safeParseJSON(saved.history, <<>>).threw]

InitFrom(snapshots) ==
  /\ today = 0
  /\ clock = 0
  /\ op = "none"
  /\ alarmIntervalRef = FALSE
  /\ alarmIntervals = 0
  /\ interval = FALSE
  /\ runTicks = -1
  /\ fired = 0
  /\ faults = {}
  /\ customSessions = <<>>
  /\ WorkerInit
  /\ \E saved \in snapshots :
       LET m == MountedState(saved, 0)
       IN /\ mode = m.mode
          /\ phase = m.phase
          /\ isRunning = m.isRunning
          /\ isAlarmPlaying = m.isAlarmPlaying
          /\ customFocusTime = m.customFocusTime
          /\ customBreakTime = m.customBreakTime
          /\ timeLeft = m.timeLeft
          /\ stats = m.stats
          /\ sessionHistory = m.sessionHistory
          /\ streak = m.streak
          /\ lastActiveDate = m.lastActiveDate
          /\ storage = m.storage
          /\ modeDeps = m.modeDeps
          /\ kb = m.kb
          /\ mounted = m.mounted
          /\ pc = IF m.crashed THEN "crashed" ELSE "idle"

\* ----------------------------------------------------------------- frames
recVars == <<stats, sessionHistory, streak, lastActiveDate>>
alarmVars == <<isAlarmPlaying, alarmIntervalRef, alarmIntervals>>
effVars == <<interval, modeDeps, kb, storage>>
customVars == <<customFocusTime, customBreakTime>>

\* a completion may still be counted within the bounds
CanComplete ==
  /\ alarmIntervals < MaxAlarmIntervals
  /\ phase = FOCUS => clock < MaxSessions

\* the handler has committed; its effects are pending
Commit(name) ==
  /\ pc = "idle"
  /\ pc' = "effects"
  /\ op' = name
  /\ fired' = 0
  /\ faults' = {}
  /\ customSessions' = IF name = "resetStats" THEN <<>> ELSE customSessions
  /\ UNCHANGED <<mounted, workerVars>>

\* ------------------------------------------------------------ the timer
\* the setInterval callback of the timer effect: setTimeLeft(prev => prev - 1)
Tick ==
  /\ interval
  /\ timeLeft = 1 => CanComplete
  /\ Commit("tick")
  /\ timeLeft' = timeLeft - 1
  /\ runTicks' = IF runTicks >= 0 THEN runTicks + 1 ELSE runTicks
  /\ UNCHANGED <<today, mode, phase, isRunning, customVars, recVars, alarmVars,
                 effVars, clock>>

\* setIsRunning(!isRunning) / setIsRunning(prev => !prev)
Toggle(name) ==
  /\ (~isRunning /\ timeLeft = 0) => CanComplete
  /\ Commit(name)
  /\ isRunning' = ~isRunning
  /\ runTicks' = IF ~isRunning /\ phase = FOCUS
                    /\ timeLeft = getInitialTime(mode, FOCUS, customFocusTime, customBreakTime)
                   THEN 0 ELSE -1
  /\ UNCHANGED <<today, mode, phase, timeLeft, customVars, recVars, alarmVars,
                 effVars, clock>>

\* the Start/Pause button, rendered only while no alarm plays
StartPauseButton == ~isAlarmPlaying /\ Toggle("button")

\* the timer circle's onClick
ClickCircle == Toggle("circle")

\* Space: toggles unless the handler's isAlarmPlaying is true
KeySpace == ~kb.alarm /\ Toggle("space")

\* the phase and time a skip sets, then setIsRunning(false)
Skip(name, m, p, cf, cb) ==
  /\ Commit(name)
  /\ phase' = skipPhase(m, p, cf, cb).phase
  /\ timeLeft' = skipPhase(m, p, cf, cb).timeLeft
  /\ isRunning' = FALSE
  /\ runTicks' = -1
  /\ UNCHANGED <<today, mode, customVars, recVars, alarmVars, effVars, clock>>

\* the time a reset sets, then setIsRunning(false)
Reset(name, m, p, cf, cb) ==
  /\ Commit(name)
  /\ timeLeft' = resetTimer(m, p, cf, cb)
  /\ isRunning' = FALSE
  /\ runTicks' = -1
  /\ UNCHANGED <<today, mode, phase, customVars, recVars, alarmVars, effVars, clock>>

\* the Skip and Reset buttons (onSkip, onReset of the current render), rendered
\* only while no alarm plays
SkipButton ==
  ~isAlarmPlaying /\ Skip("skip", mode, phase, customFocusTime, customBreakTime)

ResetButton ==
  ~isAlarmPlaying /\ Reset("reset", mode, phase, customFocusTime, customBreakTime)

\* S and R: skipPhase and resetTimer of the render the keyboard effect captured
KeyS == Skip("keyS", kb.mode, kb.phase, kb.customFocusTime, kb.customBreakTime)

KeyR == Reset("keyR", kb.mode, kb.phase, kb.customFocusTime, kb.customBreakTime)

\* the S1 and S2 mode buttons
SelectMode(m) ==
  /\ Commit("mode")
  /\ mode' = m
  /\ runTicks' = -1
  /\ UNCHANGED <<today, phase, isRunning, timeLeft, customVars, recVars, alarmVars,
                 effVars, clock>>

\* handleSaveCustom of the custom-timer modal
SaveCustom(f, b) ==
  /\ Commit("custom")
  /\ customFocusTime' = f
  /\ customBreakTime' = b
  /\ mode' = CUSTOM
  /\ runTicks' = -1
  /\ UNCHANGED <<today, phase, isRunning, timeLeft, recVars, alarmVars, effVars,
                 clock>>

\* ------------------------------------------------------------ the alarm
StopAlarm(name) ==
  /\ Commit(name)
  /\ isAlarmPlaying' = stopAlarm(alarmIntervalRef, alarmIntervals).playing
  /\ alarmIntervalRef' = stopAlarm(alarmIntervalRef, alarmIntervals).ref
  /\ alarmIntervals' = stopAlarm(alarmIntervalRef, alarmIntervals).n
  /\ UNCHANGED <<today, mode, phase, isRunning, timeLeft, customVars, recVars,
                 effVars, clock, runTicks>>

\* the Stop Alarm button, rendered only while the alarm plays
StopAlarmButton == isAlarmPlaying /\ StopAlarm("stopAlarm")

\* Escape: stopAlarm if the handler's isAlarmPlaying is true
KeyEscape == kb.alarm /\ StopAlarm("escape")

\* ---------------------------------------------------- stats and history
ResetStats ==
  /\ Commit("resetStats")
  /\ stats' = [s1Count |-> 0, s2Count |-> 0, customCount |-> 0, totalMinutes |-> 0,
               dailyGoal |-> stats.dailyGoal, date |-> today]
  /\ UNCHANGED <<today, mode, phase, isRunning, timeLeft, customVars, sessionHistory,
                 streak, lastActiveDate, alarmVars, effVars, clock, runTicks>>

UpdateDailyGoal(goal) ==
  /\ Commit("goal")
  /\ stats' = [stats EXCEPT !.dailyGoal = goal]
  /\ UNCHANGED <<today, mode, phase, isRunning, timeLeft, customVars, sessionHistory,
                 streak, lastActiveDate, alarmVars, effVars, clock, runTicks>>

clearHistory == <<>>

\* Settings page, Clear All History: confirm(...) answered by the user
ClearHistorySettings(confirmed) ==
  /\ Commit(IF confirmed THEN "clearConfirmed" ELSE "clearDeclined")
  /\ sessionHistory' = IF confirmed THEN clearHistory ELSE sessionHistory
  /\ UNCHANGED <<today, mode, phase, isRunning, timeLeft, customVars, stats,
                 streak, lastActiveDate, alarmVars, effVars, clock, runTicks>>

\* StatsPanel, Clear History: shown when todaySessions is not empty
ClearHistoryStatsPanel ==
  /\ hasTodaySessions
  /\ Commit("clearStatsPanel")
  /\ sessionHistory' = clearHistory
  /\ UNCHANGED <<today, mode, phase, isRunning, timeLeft, customVars, stats,
                 streak, lastActiveDate, alarmVars, effVars, clock, runTicks>>

\* ----------------------------------------------------------- environment
\* the calendar day changes while the page is open
Midnight ==
  /\ pc = "idle"
  /\ today < MaxDay
  /\ today' = today + 1
  /\ UNCHANGED <<storage, mode, phase, isRunning, isAlarmPlaying, timeLeft,
                 customVars, recVars, alarmIntervalRef, alarmIntervals, interval,
                 modeDeps, kb, pc, clock, op, runTicks, fired, faults, mounted,
                 customSessions, workerVars>>

\* the page is reloaded: App is constructed again from localStorage
Reload ==
  /\ pc = "idle"
  /\ LET m == MountedState(storage, today)
     IN /\ mode' = m.mode
        /\ phase' = m.phase
        /\ isRunning' = m.isRunning
        /\ isAlarmPlaying' = m.isAlarmPlaying
        /\ customFocusTime' = m.customFocusTime
        /\ customBreakTime' = m.customBreakTime
        /\ timeLeft' = m.timeLeft
        /\ stats' = m.stats
        /\ sessionHistory' = m.sessionHistory
        /\ streak' = m.streak
        /\ lastActiveDate' = m.lastActiveDate
        /\ storage' = m.storage
        /\ modeDeps' = m.modeDeps
        /\ kb' = m.kb
        /\ mounted' = m.mounted
        /\ pc' = IF m.crashed THEN "crashed" ELSE "idle"
  /\ alarmIntervalRef' = FALSE
  /\ alarmIntervals' = 0
  /\ interval' = FALSE
  /\ op' = "none"
  /\ runTicks' = -1
  /\ fired' = 0
  /\ faults' = {}
  /\ customSessions' = IF MountedState(storage, today).stats = stats
                          THEN customSessions ELSE <<>>
  /\ UNCHANGED <<today, clock, workerVars>>

\* ---------------------------------------------------------------- effects
\* React runs the effects of the committed render: persistence, the mode
\* effect (deps mode, customFocusTime), the keyboard effect (deps
\* isAlarmPlaying) and the timer effect; the state they set is the next commit
Flush(audio, notify, store) ==
  /\ pc = "effects"
  /\ LET modeChanged == <<mode, customFocusTime>> # modeDeps
           reached == ~armsInterval(isRunning, timeLeft) /\ completes(isRunning, timeLeft)
           done == reached /\ ~escapes(audio, notify)
           focusDone == done /\ phase = FOCUS
           recorded == done /\ recordsSession(phase)
           len == sessionLength(mode, customFocusTime)
           breakTime == IF mode = CUSTOM THEN customBreakTime * SecPerMin
                        ELSE TIMER_CONFIG(mode).break
           sound == IF reached
                      THEN playSound(audio, alarmIntervalRef, alarmIntervals, isAlarmPlaying)
                      ELSE [ref |-> alarmIntervalRef, n |-> alarmIntervals,
                            playing |-> isAlarmPlaying]
           sk == updateStreak(streak, lastActiveDate, today)
           \* the mode effect
           run1 == IF modeChanged THEN FALSE ELSE isRunning
           phase1 == IF modeChanged THEN FOCUS ELSE phase
           time1 == IF modeChanged
                      THEN getInitialTime(mode, FOCUS, customFocusTime, customBreakTime)
                      ELSE timeLeft
           \* the timer effect
           run2 == IF done THEN stopsRun(phase, run1) ELSE run1
           phase2 == IF focusDone THEN BREAK ELSE phase1
           time2 == IF focusDone THEN breakTime ELSE time1
           stats2 == IF recorded THEN completeStats(stats, mode, len) ELSE stats
           hist2 == IF recorded
                      THEN addToHistory(sessionHistory, mode, len, PersistedIds + clock, today)
                      ELSE sessionHistory
           streak2 == IF recorded THEN sk.streak ELSE streak
           lad2 == IF recorded THEN sk.lastActiveDate ELSE lastActiveDate
       IN /\ (~reached) => (audio /\ notify)
          /\ isRunning' = run2
          /\ phase' = phase2
          /\ timeLeft' = time2
          /\ stats' = stats2
          /\ sessionHistory' = hist2
          /\ streak' = streak2
          /\ lastActiveDate' = lad2
          /\ isAlarmPlaying' = sound.playing
          /\ alarmIntervalRef' = sound.ref
          /\ alarmIntervals' = sound.n
          /\ interval' = armsInterval(isRunning, timeLeft)
          /\ modeDeps' = <<mode, customFocusTime>>
          /\ kb' = IF isAlarmPlaying # kb.alarm
                     THEN [alarm |-> isAlarmPlaying, mode |-> mode, phase |-> phase,
                           customFocusTime |-> customFocusTime,
                           customBreakTime |-> customBreakTime]
                     ELSE kb
          /\ storage' = IF store THEN persist(stats, sessionHistory, streak, lastActiveDate)
                        ELSE storage
          /\ clock' = IF recorded THEN clock + 1 ELSE clock
          /\ customSessions' = IF recorded /\ mode = CUSTOM
                                 THEN <<customFocusTime>> \o customSessions
                                 ELSE customSessions
          /\ op' = IF done THEN "complete" ELSE "none"
          /\ fired' = IF done THEN fired + 1 ELSE 0
          /\ faults' = IF reached
                         THEN {f \in AllFaults : \/ f = "audio" /\ ~audio
                                                 \/ f = "notification" /\ ~notify
                                                 \/ f = "storage" /\ ~store}
                         ELSE {}
          /\ runTicks' = IF done THEN runTicks
                         ELSE IF modeChanged \/ ~isRunning THEN -1 ELSE runTicks
          /\ pc' = IF <<run2, phase2, time2, stats2, hist2, streak2, lad2, sound.playing>>
                      # <<isRunning, phase, timeLeft, stats, sessionHistory, streak,
                          lastActiveDate, isAlarmPlaying>>
                     THEN "effects" ELSE "idle"
          /\ UNCHANGED <<today, mode, customVars, mounted, workerVars>>

\* the effects when storage and the system notification work
FlushEffects == \E audio \in BOOLEAN : Flush(audio, TRUE, TRUE)

\* the effects when the audio, the system notification and the storage
\* writes can each fail
FlushEffectsFaulty == \E audio \in BOOLEAN, notify \in BOOLEAN, store \in BOOLEAN :
  Flush(audio, notify, store)

\* ------------------------------------------------------------------- spec
\* the timer engine: every control of the timer, the alarm and the keyboard,
\* from a first visit
EngineStep ==
  \/ Tick
  \/ StartPauseButton
  \/ ClickCircle
  \/ KeySpace
  \/ SkipButton
  \/ ResetButton
  \/ KeyS
  \/ KeyR
  \/ \E m \in {S1, S2} : SelectMode(m)
  \/ \E f \in FocusChoices, b \in BreakChoices : SaveCustom(f, b)
  \/ StopAlarmButton
  \/ KeyEscape
  \/ FlushEffects

Init == InitFrom({FirstVisit})

Next == EngineStep

Spec == Init /\ [][Next]_vars

\* the session recorder: sessions are run with the buttons, on a page opened
\* on any stored data, reloaded, kept open over midnight; stats and history
\* are edited from the StatsPanel and the Settings page
RecorderStep ==
  \/ Tick
  \/ StartPauseButton
  \/ StopAlarmButton
  \/ \E f \in FocusChoices, b \in BreakChoices : SaveCustom(f, b)
  \/ \E c \in BOOLEAN : ClearHistorySettings(c)
  \/ ClearHistoryStatsPanel
  \/ Midnight
  \/ Reload
  \/ FlushEffects

InitRecorder == InitFrom(StoredSnapshots)

SpecRecorder == InitRecorder /\ [][RecorderStep]_vars

\* the StatsPanel: the goal editor and the reset of today's stats, while
\* sessions are run with the buttons
StatsStep ==
  \/ Tick
  \/ StartPauseButton
  \/ StopAlarmButton
  \/ ResetStats
  \/ \E goal \in GoalChoices : UpdateDailyGoal(goal)
  \/ FlushEffects

InitStats == InitFrom({FirstVisit, UsedToday})

SpecStats == InitStats /\ [][StatsStep]_vars

\* the timer when the audio, the system notification and the storage can
\* fail: sessions are run and skipped with the buttons and the page is reloaded
FaultyStep ==
  \/ Tick
  \/ StartPauseButton
  \/ SkipButton
  \/ StopAlarmButton
  \/ Reload
  \/ FlushEffectsFaulty

SpecFaults == Init /\ [][FaultyStep]_vars

\* the totals of the day: sessions of every mode are run with the buttons
\* from a first visit, and today's stats are reset from the StatsPanel
TotalsStep ==
  \/ Tick
  \/ StartPauseButton
  \/ StopAlarmButton
  \/ \E m \in {S1, S2} : SelectMode(m)
  \/ \E f \in FocusChoices, b \in BreakChoices : SaveCustom(f, b)
  \/ ResetStats
  \/ FlushEffects

SpecTotals == Init /\ [][TotalsStep]_vars

\* the timer worker: messages of every kind, in any order, and its interval,
\* which fires as long as it is set
WorkerStep ==
  \/ \E msg \in Messages : WorkerMessage(msg)
  \/ WorkerTick

SpecWorker == Init /\ [][WorkerStep]_vars /\ WF_vars(WorkerTick)

\* ----------------------------------------------------------- properties
\* the configured durations, as the specification states them
FocusMinutes(m) == IF m = S1 THEN 30 ELSE IF m = S2 THEN 20 ELSE customFocusTime
BreakMinutes(m) == IF m = S1 THEN 5 ELSE IF m = S2 THEN 4 ELSE customBreakTime
Duration(m, p) == (IF p = FOCUS THEN FocusMinutes(m) ELSE BreakMinutes(m)) * SecPerMin
OtherPhase(p) == IF p = FOCUS THEN BREAK ELSE FOCUS
CounterOf(st, m) ==
  IF m = S1 THEN st.s1Count ELSE IF m = S2 THEN st.s2Count ELSE st.customCount

\* a focus session is recorded in this step
Records == clock' = clock + 1

\* C1: timeLeft is never negative, and over a step in which isRunning stays
\* true timeLeft does not increase
C1_TimeLeftBounded ==
  /\ [](timeLeft >= 0)
  /\ [][(isRunning /\ isRunning') => timeLeft' <= timeLeft]_vars

\* C1 witness: a tick has taken a running countdown down to a positive value
C1_Witness == op = "tick" /\ isRunning /\ interval /\ timeLeft > 0

\* C2: when the committed state is running with timeLeft = 0, the next step
\* fires exactly one completion and sets isRunning to false; a completion
\* fires from no other state, and no second one follows it until a handler
\* has acted again
C2_OneCompletion ==
  /\ [][(isRunning /\ timeLeft = 0) => (fired' = fired + 1 /\ ~isRunning')]_vars
  /\ [][fired' > fired => (isRunning /\ timeLeft = 0)]_vars
  /\ [](fired <= 1)

\* C2 witness: a BREAK countdown has completed
C2_Witness ==
  op = "complete" /\ fired = 1 /\ ~isRunning /\ phase = BREAK /\ timeLeft = 0

\* C3: a FOCUS phase started at its full duration and run uninterrupted to 0
\* has taken that many ticks and ends in BREAK at the mode's break duration,
\* stopped, with one new record (the mode, the focus minutes) at the head of
\* the history and the mode's counter and totalMinutes raised by 1 and by the
\* focus minutes
C3_FocusRunRecorded ==
  [][(pc = "effects" /\ isRunning /\ timeLeft = 0 /\ phase = FOCUS /\ runTicks >= 0)
       => /\ runTicks = FocusMinutes(mode) * SecPerMin
          /\ phase' = BREAK
          /\ timeLeft' = BreakMinutes(mode) * SecPerMin
          /\ ~isRunning'
          /\ Len(sessionHistory') =
               (IF Len(sessionHistory) < 100 THEN Len(sessionHistory) + 1 ELSE 100)
          /\ sessionHistory'[1].type = mode
          /\ sessionHistory'[1].duration = FocusMinutes(mode)
          /\ \A i \in 2..Len(sessionHistory') : sessionHistory'[i] = sessionHistory[i - 1]
          /\ \A m \in FocusMode :
               CounterOf(stats', m) = CounterOf(stats, m) + (IF m = mode THEN 1 ELSE 0)
          /\ stats'.totalMinutes = stats.totalMinutes + FocusMinutes(mode)]_vars

\* C3 witness: the S1 scenario, 30 minutes of ticks from a full FOCUS phase
C3_Witness ==
  /\ op = "complete" /\ mode = S1 /\ runTicks = 30 * SecPerMin
  /\ phase = BREAK /\ timeLeft = 5 * SecPerMin /\ ~isRunning
  /\ stats.s1Count = 1 /\ Len(sessionHistory) = 1

\* C4: the skip operation toggles the phase, loads the full duration of the
\* phase it moves into for the current mode, and stops the timer
C4_SkipLoadsNextPhase ==
  [][(pc = "idle" /\ op' = "skip")
       => /\ phase' = OtherPhase(phase)
          /\ mode' = mode
          /\ timeLeft' = Duration(mode, OtherPhase(phase))
          /\ ~isRunning']_vars

\* C4 witness: skip has acted on a BREAK countdown that was running
C4_Witness ==
  /\ op = "skip" /\ interval /\ phase = FOCUS /\ ~isRunning
  /\ timeLeft = Duration(mode, FOCUS)

\* C5: while the alarm is sounding no step takes isRunning from false to true
C5_NoStartWhileAlarm ==
  [][(isAlarmPlaying /\ ~isRunning) => ~isRunning']_vars

\* C6: at most one repeating alarm interval is scheduled
C6_OneAlarmInterval == alarmIntervals <= 1

\* the ids of the history, newest first
NewestFirst(hist) ==
  \A i \in 1..(Len(hist) - 1) : hist[i].id > hist[i + 1].id

\* C7: the history has at most 100 entries, the most recently recorded
\* session first; a recording puts the new session at the head and keeps the
\* others in order, dropping the last one when the list was full
C7_HistoryCapped ==
  /\ [](Len(sessionHistory) <= 100 /\ NewestFirst(sessionHistory))
  /\ [][Records
         => /\ sessionHistory'[1].id >= PersistedIds
            /\ Len(sessionHistory') =
                 (IF Len(sessionHistory) < 100 THEN Len(sessionHistory) + 1 ELSE 100)
            /\ \A i \in 2..Len(sessionHistory') :
                 sessionHistory'[i] = sessionHistory[i - 1]]_vars

\* C7 witness: a session was recorded into a full list and the oldest record
\* is gone
C7_Witness ==
  /\ Len(sessionHistory) = 100
  /\ sessionHistory[1].id >= PersistedIds
  /\ sessionHistory[100].id = PersistedIds - 99

\* C8: a recording on day d leaves the streak unchanged if lastActiveDate is
\* d, raises it by 1 if lastActiveDate is the day before d, sets it to 1 if
\* lastActiveDate is empty or older; lastActiveDate is d afterwards
C8_StreakUpdate ==
  [][Records
       => /\ lastActiveDate' = today
          /\ lastActiveDate = today => streak' = streak
          /\ lastActiveDate = today - 1 => streak' = streak + 1
          /\ (lastActiveDate = NoDate \/ lastActiveDate < today - 1) => streak' = 1]_vars

\* C8 witness: a session recorded the day after the last active day
C8_Witness ==
  op = "complete" /\ clock = 1 /\ streak = 4 /\ lastActiveDate = today

\* C9: loading stats stored under another day's key zeroes the counters and
\* keeps the stored dailyGoal
C9_StaleStatsKeepGoal ==
  [][(Reload /\ storage.stats.value.date # today)
       => /\ stats'.s1Count = 0 /\ stats'.s2Count = 0 /\ stats'.customCount = 0
          /\ stats'.totalMinutes = 0
          /\ stats'.dailyGoal = storage.stats.value.dailyGoal]_vars

\* C10: the history is emptied only by a clear the user has confirmed, and a
\* declined confirmation leaves it unchanged
C10_ClearNeedsConfirm ==
  /\ [][(sessionHistory # <<>> /\ sessionHistory' = <<>>) => op' = "clearConfirmed"]_vars
  /\ [][(pc = "idle" /\ op' = "clearDeclined") => sessionHistory' = sessionHistory]_vars

\* C11: the daily goal stays within 1..20 in every reachable state
C11_GoalInRange == stats.dailyGoal \in 1..20

\* C12: only a completed FOCUS phase records a session: a BREAK completion,
\* a skip and a reset leave the stats, the history, the streak and
\* lastActiveDate unchanged
C12_OnlyFocusRecords ==
  /\ [][(pc = "idle" /\ op' \in {"skip", "reset", "keyS", "keyR"}) => UNCHANGED recVars]_vars
  /\ [][(op' = "complete" /\ phase = BREAK) => UNCHANGED recVars]_vars
  /\ [][recVars' # recVars => (op' = "complete" /\ phase = FOCUS)]_vars

\* C12 witness: a break has completed after a recorded focus session and the
\* one record is all there is
C12_Witness ==
  /\ op = "complete" /\ phase = BREAK /\ timeLeft = 0 /\ isAlarmPlaying
  /\ clock = 1 /\ Len(sessionHistory) = 1
  /\ stats.s1Count + stats.s2Count + stats.customCount = 1

\* the messages a countdown from n posts: TICK n-1, ..., TICK 0, COMPLETE
Countdown(n) == [i \in 1..(n + 1) |-> IF i <= n THEN TICK(n - i) ELSE COMPLETE]
IsPrefix(a, b) == Len(a) <= Len(b) /\ SubSeq(b, 1, Len(a)) = a
LastStart(n) == wLast.type = "START" /\ wLast.payload = n

\* C13: after START{n}, n >= 1, and no further message, the worker posts
\* TICK n-1, ..., TICK 0 in that order, then one COMPLETE, then nothing more:
\* what it has posted is always a prefix of that sequence, and in the end it
\* is the whole sequence
C13_StartCountsDown ==
  /\ [](\A n \in 1..MaxWorkerTime : LastStart(n) => IsPrefix(wOut, Countdown(n)))
  /\ \A n \in 1..MaxWorkerTime : <>[](LastStart(n) => wOut = Countdown(n))

\* C13 witness: the countdown from MaxWorkerTime has posted all its messages
\* and the interval is cleared
C13_Witness ==
  /\ LastStart(MaxWorkerTime)
  /\ wOut = Countdown(MaxWorkerTime)
  /\ ~worker.timerInterval
  /\ worker.timeRemaining = 0

\* the worker processes a message in this step
Processes(types) == wSeq' = wSeq + 1 /\ wLast'.type \in types
Counting(out) == \E i \in 1..Len(out) : out[i].type \in {"TICK", "COMPLETE"}

LastReset(t) == wLast.type = "RESET" /\ wLast.payload = t

\* C15: processing RESET{t} in any worker state clears the interval and the
\* running flag, sets timeRemaining to t and posts exactly one TICK carrying
\* t; nothing follows it, and the interval posts nothing until the next START
C15_ResetReports ==
  /\ [][(Processes({"RESET"}) /\ wLast'.payload # NoPayload)
          => /\ ~worker'.timerInterval /\ ~worker'.isRunning
             /\ worker'.timeRemaining = wLast'.payload
             /\ wOut' = <<TICK(wLast'.payload)>>]_vars
  /\ [](\A t \in 0..MaxWorkerTime :
          LastReset(t) => (wOut = <<TICK(t)>> /\ worker.timeRemaining = t /\ wHalted))
  /\ [][(wHalted /\ wSeq' = wSeq) => ~Counting(SubSeq(wOut', Len(wOut) + 1, Len(wOut')))]_vars

\* C15 witness: a RESET to the full time, processed after an earlier message
C15_Witness ==
  /\ LastReset(MaxWorkerTime)
  /\ wSeq >= 2
  /\ wOut = <<TICK(MaxWorkerTime)>>
  /\ worker = [timerInterval |-> FALSE, timeRemaining |-> MaxWorkerTime, isRunning |-> FALSE]

Malformed(msg) ==
  \/ msg.type \in {"NODATA", "PING"}
  \/ msg.type \in {"START", "RESET", "SYNC"} /\ msg.payload = NoPayload

\* C16: a malformed or unrecognized message (no data, unknown type, or START,
\* RESET or SYNC without a payload) leaves timeRemaining, the running flag
\* and the interval unchanged
C16_MalformedIgnored ==
  [][(wSeq' = wSeq + 1 /\ Malformed(wLast')) => worker' = worker]_vars

\* C17: when the item under the history key is missing or is not valid JSON
\* at load time, the history initializes to the empty list, and no exception
\* leaves the initialization
C17_CorruptHistoryEmpty ==
  /\ [](pc # "crashed")
  /\ (mounted \in {"missing", "corrupt"} => sessionHistory = <<>>)
  /\ [][Reload => (mounted' \in {"missing", "corrupt"} => sessionHistory' = <<>>)]_vars

\* C17 witness: the page has mounted on a history item that is not JSON, next
\* to valid stats of today
C17_Witness ==
  /\ mounted = "corrupt"
  /\ pc = "idle"
  /\ sessionHistory = <<>>
  /\ stats.s1Count = 1
  /\ storage.history = [present |-> TRUE, valid |-> TRUE, value |-> <<>>]

\* the in-memory record of a completed focus session when nothing fails
FocusOutcome ==
  /\ Len(sessionHistory') =
       (IF Len(sessionHistory) < 100 THEN Len(sessionHistory) + 1 ELSE 100)
  /\ sessionHistory'[1].type = mode
  /\ sessionHistory'[1].duration = FocusMinutes(mode)
  /\ \A i \in 2..Len(sessionHistory') : sessionHistory'[i] = sessionHistory[i - 1]
  /\ \A m \in FocusMode :
       CounterOf(stats', m) = CounterOf(stats, m) + (IF m = mode THEN 1 ELSE 0)
  /\ stats'.totalMinutes = stats.totalMinutes + FocusMinutes(mode)
  /\ stats'.dailyGoal = stats.dailyGoal
  /\ lastActiveDate' = today
  /\ streak' = (IF lastActiveDate = today THEN streak
                ELSE IF lastActiveDate = today - 1 THEN streak + 1 ELSE 1)

\* C18: whatever fails at a phase completion (the audio, the system
\* notification, a storage write), the completion stops the timer, makes the
\* phase transition and updates stats, history and streak in memory as it
\* does when nothing fails
C18_FaultsKeepOutcome ==
  [][(pc = "effects" /\ isRunning /\ timeLeft = 0)
       => /\ op' = "complete"
          /\ ~isRunning'
          /\ phase' = BREAK
          /\ timeLeft' = (IF phase = FOCUS THEN Duration(mode, BREAK) ELSE 0)
          /\ IF phase = FOCUS THEN FocusOutcome ELSE UNCHANGED recVars]_vars

\* C18 witness: a focus session has completed while the audio, the
\* notification and the storage write all failed
C18_Witness ==
  /\ op = "complete"
  /\ faults = AllFaults
  /\ phase = BREAK /\ timeLeft = Duration(mode, BREAK) /\ ~isRunning
  /\ clock = 1 /\ Len(sessionHistory) = 1
  /\ ~isAlarmPlaying

\* C19: outside a text input, R has the effect of the reset operation and S
\* the effect of the skip operation on mode, phase, timeLeft and isRunning,
\* both computed from the current mode and phase
C19_ShortcutsMatchButtons ==
  /\ [][(pc = "idle" /\ op' = "keyR")
          => /\ mode' = mode /\ phase' = phase /\ ~isRunning'
             /\ timeLeft' = Duration(mode, phase)]_vars
  /\ [][(pc = "idle" /\ op' = "keyS")
          => /\ mode' = mode /\ phase' = OtherPhase(phase) /\ ~isRunning'
             /\ timeLeft' = Duration(mode, OtherPhase(phase))]_vars

\* C20: after stopAlarm (the Stop Alarm button, or Escape while an alarm
\* sounds) isAlarmPlaying is false and no repeating alarm interval remains
\* scheduled; a stop with no alarm playing changes nothing
C20_StopAlarmIdempotent ==
  /\ [][(pc = "idle" /\ op' \in {"stopAlarm", "escape"})
          => (~isAlarmPlaying' /\ ~alarmIntervalRef' /\ alarmIntervals' = 0)]_vars
  /\ [](~isAlarmPlaying
          => stopAlarm(alarmIntervalRef, alarmIntervals)
               = [ref |-> alarmIntervalRef, n |-> alarmIntervals, playing |-> FALSE])

\* C21: selecting a mode in any state (S1, S2, or applying the custom timer
\* settings) results, once its effects have run, in phase FOCUS, timeLeft the
\* selected mode's focus duration and isRunning false
C21_SelectModeResets ==
  [][(pc = "effects" /\ op \in {"mode", "custom"})
       => (phase' = FOCUS /\ timeLeft' = Duration(mode', FOCUS) /\ ~isRunning')]_vars

\* C22: from any state, reset sets timeLeft to the full configured duration
\* of the current phase of the current mode and isRunning to false, and leaves
\* mode, phase, stats, history and streak unchanged, as do its effects
C22_ResetReloadsPhase ==
  /\ [][(pc = "idle" /\ op' = "reset")
          => /\ timeLeft' = Duration(mode, phase)
             /\ ~isRunning'
             /\ UNCHANGED <<mode, phase, recVars>>]_vars
  /\ [][(pc = "effects" /\ op = "reset")
          => UNCHANGED <<mode, phase, timeLeft, isRunning, recVars>>]_vars

\* C22 witness: a running S2 break has been reset to its 4 minutes
C22_Witness ==
  /\ op = "reset" /\ interval /\ ~isRunning
  /\ mode = S2 /\ phase = BREAK /\ timeLeft = 4 * SecPerMin

\* C23: timeLeft is decremented only while isRunning is true: the interval
\* callback runs only in a state where isRunning is true, and once a pause,
\* reset, skip or mode change has set isRunning to false no callback
\* decrements timeLeft
C23_TickOnlyWhileRunning ==
  /\ [][(pc = "idle" /\ op' = "tick") => (isRunning /\ timeLeft' = timeLeft - 1)]_vars
  /\ [][~isRunning => op' # "tick"]_vars
  /\ [][(~isRunning /\ timeLeft' < timeLeft)
          => (op' \in {"skip", "reset", "keyS", "keyR"} \/ pc = "effects")]_vars

\* C23 witness: a pause was committed in the middle of a countdown while the
\* interval of the last render is still set
C23_Witness ==
  /\ pc = "effects" /\ op \in {"button", "circle", "space"}
  /\ ~isRunning /\ interval
  /\ 0 < timeLeft /\ timeLeft < Duration(mode, phase)

LastSync(t) == wLast.type = "SYNC" /\ wLast.payload = t

\* C24: processing SYNC{t} sets timeRemaining to t and changes neither the
\* running flag nor the interval, and posts nothing; if the worker is ticking
\* and t >= 1, the next message it posts is TICK t-1
C24_SyncOverwrites ==
  /\ [][(Processes({"SYNC"}) /\ wLast'.payload # NoPayload)
          => /\ worker' = [worker EXCEPT !.timeRemaining = wLast'.payload]
             /\ wOut' = <<>>]_vars
  /\ [][(\E t \in 1..MaxWorkerTime : LastSync(t)) /\ wOut = <<>>
          /\ worker.timerInterval /\ worker.isRunning /\ wSeq' = wSeq
          => wOut'[1] = TICK(wLast.payload - 1)]_vars

\* C24 witness: a countdown was synced to 2 while ticking and has posted TICK 1
C24_Witness ==
  /\ LastSync(2)
  /\ wOut = <<TICK(1)>>
  /\ worker = [timerInterval |-> TRUE, timeRemaining |-> 1, isRunning |-> TRUE]

\* C25: each run of the worker's interval callback that counts decrements
\* timeRemaining by exactly 1 and posts the TICK of that value, whatever the
\* wall-clock time since the previous run, also above 2000 ms
C25_TickByOne ==
  [][(wSeq' = wSeq /\ (worker' # worker \/ wOut' # wOut))
       => /\ worker'.timeRemaining = worker.timeRemaining - 1
          /\ Len(wOut') > Len(wOut)
          /\ wOut'[Len(wOut) + 1] = TICK(worker.timeRemaining - 1)]_vars

\* C25 witness: the first tick of a countdown came more than 2000 ms late and
\* counted one second
C25_Witness ==
  /\ wDrift > DriftLimit
  /\ LastStart(MaxWorkerTime)
  /\ wOut = <<TICK(MaxWorkerTime - 1)>>
  /\ worker.timeRemaining = MaxWorkerTime - 1

\* C26: in every state in which the effects have run, timeLeft lies between 0
\* and the duration of the current mode and phase
C26_TimeLeftWithinDuration ==
  pc = "idle" => (0 <= timeLeft /\ timeLeft <= Duration(mode, phase))

\* C27: a completion fires only in the effects of a tick, so at least one
\* second is counted between two consecutive completions; pressing start
\* after a completed BREAK does not fire another completion at once
C27_SecondBetweenCompletions ==
  [][fired' > fired => op = "tick"]_vars

\* C28: once START{0}, or SYNC{0} while the interval ticks, has left the
\* worker running with timeRemaining = 0 and no further message arrives, the
\* worker eventually posts COMPLETE
C28_ZeroCompletes ==
  ((LastStart(0) \/ LastSync(0)) /\ worker.timerInterval /\ worker.isRunning
     /\ worker.timeRemaining = 0 /\ wSeq = MaxMessages)
    ~> (\E i \in 1..Len(wOut) : wOut[i] = COMPLETE)

\* C29: whenever a focus completion increments the stats counters, the date
\* of the stats is the current calendar day, also when midnight has passed
\* while the page was open
C29_StatsDateCurrent ==
  [][(pc = "effects" /\ stats'.totalMinutes > stats.totalMinutes)
       => stats'.date = today']_vars

\* the sum of a sequence of minutes
RECURSIVE SumOf(_)
SumOf(seq) == IF seq = <<>> THEN 0 ELSE Head(seq) + SumOf(Tail(seq))

====
